---- MODULE Spec2Model ----
(***************************************************************************)
(* AltStore repository merger (merge_repos.py).                            *)
(*                                                                         *)
(* Two specifications over one set of variables:                           *)
(*   SpecMerge  merge_manifests(manifests, output_name) run on an argument *)
(*              list drawn from ManifestLists, one step per loop iteration *)
(*   Spec       main(): the fetch loop over urls, the empty check, the     *)
(*              merge, the file write and the console output               *)
(* JSON objects are TLA+ records; a key the object lacks is a field the    *)
(* record lacks, so `k in d` is  k \in DOMAIN d.                           *)
(***************************************************************************)
EXTENDS Integers, Sequences, FiniteSets, TLC

VARIABLES pc, manifests, output_name, merged, seen_apps, mi, exc, returned,
          responses, ui, streams, exit_status, output_file

vars == <<pc, manifests, output_name, merged, seen_apps, mi, exc, returned,
          responses, ui, streams, exit_status, output_file>>

\* Longest argument list handed to merge_manifests in SpecMerge.
MaxManifests == 2

(***************************************************************************)
(* JSON values of the sample documents                                     *)
(***************************************************************************)
\* json.loads yields int for a JSON number and bool for true/false; bool is
\* a subclass of int in Python, so the tag is kept next to the numeric value.
JInt(n) == [t |-> "int", n |-> n]
JBool(b) == [t |-> "bool", n |-> IF b THEN 1 ELSE 0]

AX1 == [bundleIdentifier |-> "x", v |-> 1]
AX2 == [bundleIdentifier |-> "x", v |-> 2]
AY1 == [bundleIdentifier |-> "y", v |-> 1]
AEmpty == [bundleIdentifier |-> "", v |-> 1]
ANoKey == [v |-> 1]

NHello == [title |-> "hello"]
NBye == [title |-> "bye"]
NPin1 == [title |-> "update", notify |-> JInt(1)]
NPinTrue == [title |-> "update", notify |-> JBool(TRUE)]

AppLists == { <<AX1, ANoKey, AEmpty>>, <<AX2, AY1, AX1, ANoKey>> }
NewsLists == { <<NHello, NPin1, NHello>>, <<NPinTrue, NHello, NBye>> }

NoFields == [x \in {} |-> ""]
MetaA == [name |-> "A", identifier |-> "com.a", iconURL |-> "a.png",
          subtitle |-> "sub-a", tintColor |-> "aaaaaa"]
MetaB == [iconURL |-> "b.png", website |-> "b.example", sourceURL |-> "b.json"]
MetaChoices == { NoFields, MetaA, MetaB }

\* A fetched document: any JSON object; apps and news are optional keys.
ManifestSet ==
    { a @@ n @@ m :
        a \in { NoFields } \cup { [apps |-> l] : l \in AppLists },
        n \in { NoFields } \cup { [news |-> l] : l \in NewsLists },
        m \in MetaChoices }

ManifestLists ==
    UNION { [1..k -> ManifestSet] : k \in 0..MaxManifests }

OutputNames == { "Repository", "OctoNezd's Merged Repository" }

(***************************************************************************)
(* merge_manifests                                                         *)
(***************************************************************************)
\* `if not manifests`
EmptyInputNever(ms) == FALSE
EmptyInput(ms) == ms = <<>>

NewMerged(name) ==
    [name |-> name,
     identifier |-> "com.octonezd.merged-repo",
     iconURL |-> "https://octonezd.me/octo-ios-repo/icon.jpg",
     apps |-> <<>>,
     news |-> <<>>]

\* app.get("bundleIdentifier", "")
bundle_id(app) ==
    IF "bundleIdentifier" \in DOMAIN app THEN app.bundleIdentifier ELSE ""

\* One iteration of `for app in manifest["apps"]` on the pair
\* acc = [apps |-> merged["apps"], seen |-> seen_apps].
MergeAppNoDedup(acc, app) == [acc EXCEPT !.apps = Append(@, app)]
MergeAppKeyedEmpty(acc, app) ==
    IF bundle_id(app) \notin acc.seen
    THEN [apps |-> Append(acc.apps, app), seen |-> acc.seen \cup {bundle_id(app)}]
    ELSE acc
MergeAppDropsFresh(acc, app) ==
    IF bundle_id(app) # "" /\ bundle_id(app) \in acc.seen
    THEN [apps |-> Append(acc.apps, app), seen |-> acc.seen \cup {bundle_id(app)}]
    ELSE IF bundle_id(app) = ""
         THEN [acc EXCEPT !.apps = Append(@, app)]
         ELSE acc
MergeApp(acc, app) ==
    IF bundle_id(app) # "" /\ bundle_id(app) \notin acc.seen
    THEN [apps |-> Append(acc.apps, app), seen |-> acc.seen \cup {bundle_id(app)}]
    ELSE IF bundle_id(app) = ""
         THEN [acc EXCEPT !.apps = Append(@, app)]
         ELSE acc

RECURSIVE MergeApps(_, _)
MergeApps(acc, apps) ==
    IF apps = <<>> THEN acc
    ELSE MergeApps(MergeApp(acc, Head(apps)), Tail(apps))

\* Python == on the parsed values: dicts are equal when they have the same
\* keys with equal values, strings by content, and numbers by value whatever
\* their type (True == 1).
py_eq(a, b) ==
    /\ DOMAIN a = DOMAIN b
    /\ a.title = b.title
    /\ "notify" \in DOMAIN a => a.notify.n = b.notify.n

\* `news_item not in merged["news"]`
py_in(item, list) == \E j \in 1..Len(list) : py_eq(item, list[j])

MergeNewsItemNoCheck(news, item) == Append(news, item)
MergeNewsItem(news, item) ==
    IF ~ py_in(item, news) THEN Append(news, item) ELSE news

RECURSIVE MergeNews(_, _)
MergeNews(news, items) ==
    IF items = <<>> THEN news
    ELSE MergeNews(MergeNewsItem(news, Head(items)), Tail(items))

\* Body of `for manifest in manifests` on st = [merged |-> .., seen |-> ..].
MergeManifest(st, manifest) ==
    LET acc0 == [apps |-> st.merged.apps, seen |-> st.seen]
        acc1 == IF "apps" \in DOMAIN manifest
                THEN MergeApps(acc0, manifest.apps) ELSE acc0
        news1 == IF "news" \in DOMAIN manifest
                 THEN MergeNews(st.merged.news, manifest.news)
                 ELSE st.merged.news
    IN [merged |-> [st.merged EXCEPT !.apps = acc1.apps, !.news = news1],
        seen |-> acc1.seen]

MetaKeysAndIdentity ==
    <<"sourceURL", "subtitle", "description", "iconURL", "headerURL",
      "website", "tintColor", "name", "identifier">>
MetaKeys ==
    <<"sourceURL", "subtitle", "description", "iconURL", "headerURL",
      "website", "tintColor">>

RECURSIVE CopyKeys(_, _, _)
CopyKeys(m, first, keys) ==
    IF keys = <<>> THEN m
    ELSE CopyKeys(IF Head(keys) \in DOMAIN first
                  THEN (Head(keys) :> first[Head(keys)]) @@ m
                  ELSE m,
                  first, Tail(keys))

\* `if manifests: first_manifest = manifests[0]; for key in [...]`
CopyMetadataFromLast(m, ms) ==
    IF ms # <<>> THEN CopyKeys(m, ms[Len(ms)], MetaKeys) ELSE m
CopyMetadata(m, ms) ==
    IF ms # <<>> THEN CopyKeys(m, ms[1], MetaKeys) ELSE m

RECURSIVE MergeAll(_, _)
MergeAll(st, ms) ==
    IF ms = <<>> THEN st ELSE MergeAll(MergeManifest(st, Head(ms)), Tail(ms))

\* The value merge_manifests returns for a non-empty list.
merge_manifests(ms, name) ==
    CopyMetadata(MergeAll([merged |-> NewMerged(name), seen |-> {}], ms).merged, ms)

(***************************************************************************)
(* SpecMerge: one call of merge_manifests, stepped through its loop        *)
(***************************************************************************)
\* A local that has not been assigned, a value that was never returned,
\* a file that was never written.
Unbound == [unbound |-> TRUE]

InitMerge ==
    /\ pc = "call"
    /\ manifests \in ManifestLists
    /\ output_name \in OutputNames
    /\ merged = Unbound
    /\ seen_apps = {}
    /\ mi = 0
    /\ exc = ""
    /\ returned = Unbound
    /\ responses = <<>>
    /\ ui = 0
    /\ streams = [stdout |-> <<>>, stderr |-> <<>>]
    /\ exit_status = 0
    /\ output_file = Unbound

mainVars == <<responses, ui, streams, exit_status, output_file>>

\* if not manifests: raise ValueError(...)
RaiseEmpty ==
    /\ pc = "call"
    /\ EmptyInput(manifests)
    /\ exc' = "ValueError"
    /\ pc' = "raised"
    /\ UNCHANGED <<manifests, output_name, merged, seen_apps, mi, returned, mainVars>>

\* merged = {...}; seen_apps = set()
BuildMerged ==
    /\ pc = "call"
    /\ ~ EmptyInput(manifests)
    /\ merged' = NewMerged(output_name)
    /\ seen_apps' = {}
    /\ mi' = 1
    /\ pc' = "loop"
    /\ UNCHANGED <<manifests, output_name, exc, returned, mainVars>>

\* one iteration of `for manifest in manifests`
LoopManifest ==
    /\ pc = "loop"
    /\ mi <= Len(manifests)
    /\ LET st == MergeManifest([merged |-> merged, seen |-> seen_apps], manifests[mi])
       IN /\ merged' = st.merged
          /\ seen_apps' = st.seen
    /\ mi' = mi + 1
    /\ UNCHANGED <<pc, manifests, output_name, exc, returned, mainVars>>

\* the metadata copy after the loop
CopyStep ==
    /\ pc = "loop"
    /\ mi > Len(manifests)
    /\ merged' = CopyMetadata(merged, manifests)
    /\ pc' = "return"
    /\ UNCHANGED <<manifests, output_name, seen_apps, mi, exc, returned, mainVars>>

\* return merged
ReturnMerged ==
    /\ pc = "return"
    /\ returned' = merged
    /\ pc' = "done"
    /\ UNCHANGED <<manifests, output_name, merged, seen_apps, mi, exc, mainVars>>

NextMerge == RaiseEmpty \/ BuildMerged \/ LoopManifest \/ CopyStep \/ ReturnMerged

SpecMerge == InitMerge /\ [][NextMerge]_vars

(***************************************************************************)
(* Spec: main()                                                            *)
(***************************************************************************)
urls == << "oldlander", "VNDS-LOVE-TOUCH" >>

MainOutputName == "OctoNezd's Merged Repository"

\* What the network returns for one URL: a document that parses, or one of
\* the failures of urlopen / read / json.loads.  URLError and JSONDecodeError
\* are the two fetch_manifest reports; any other Exception goes through it
\* unreported.
FetchErrors == { "URLError", "JSONDecodeError", "TimeoutError" }
FetchOutcomes ==
    { [ok |-> TRUE, doc |-> m] : m \in ManifestSet }
    \cup { [ok |-> FALSE, err |-> e] : e \in FetchErrors }

\* print(..., file=...): one line appended to the named stream
printTo(s, file, line) == [s EXCEPT ![file] = Append(@, line)]

Progress(text) == [kind |-> "progress", text |-> text]
ProgressUrl(text, url) == [kind |-> "progress", text |-> text, url |-> url]
ProgressCount(text, n) == [kind |-> "progress", text |-> text, count |-> n]
ErrorLine(text) == [kind |-> "error", text |-> text]
ErrorUrl(text, url, e) == [kind |-> "error", text |-> text, url |-> url, err |-> e]
JsonLine(doc) == [kind |-> "json", doc |-> doc]

\* the except clauses of fetch_manifest
ReportFetchError(s, url, e) ==
    IF e = "URLError" THEN printTo(s, "stderr", ErrorUrl("Error fetching", url, e))
    ELSE IF e = "JSONDecodeError"
         THEN printTo(s, "stderr", ErrorUrl("Error parsing JSON from", url, e))
         ELSE s

\* the except clause of main's loop
ReportFailedToStdout(s, url, e) == printTo(s, "stdout", ErrorUrl("Failed to fetch", url, e))
ReportFailed(s, url, e) == printTo(s, "stderr", ErrorUrl("Failed to fetch", url, e))

\* manifests.append(manifest)
AppendManifestInFront(ms, m) == <<m>> \o ms
AppendManifest(ms, m) == Append(ms, m)

\* `if not manifests` of main
NoManifestsOrPartial(ms) == Len(ms) < Len(urls)
NoManifests(ms) == ms = <<>>

Init ==
    /\ pc = "main"
    /\ responses \in [1..Len(urls) -> FetchOutcomes]
    /\ manifests = <<>>
    /\ output_name = ""
    /\ merged = Unbound
    /\ seen_apps = {}
    /\ mi = 0
    /\ exc = ""
    /\ returned = Unbound
    /\ ui = 0
    /\ streams = [stdout |-> <<>>, stderr |-> <<>>]
    /\ exit_status = 0
    /\ output_file = Unbound

mergeLocals == <<seen_apps, mi, returned>>

\* print("Fetching manifests..."); manifests = []
MainStart ==
    /\ pc = "main"
    /\ streams' = printTo(streams, "stdout", Progress("Fetching manifests..."))
    /\ manifests' = <<>>
    /\ ui' = 1
    /\ pc' = "fetch"
    /\ UNCHANGED <<output_name, merged, exc, responses, exit_status, output_file, mergeLocals>>

\* loop body, fetch_manifest returns
FetchOk ==
    /\ pc = "fetch"
    /\ ui <= Len(urls)
    /\ responses[ui].ok
    /\ LET manifest == responses[ui].doc
           app_count == IF "apps" \in DOMAIN manifest THEN Len(manifest.apps) ELSE 0
           s1 == printTo(streams, "stdout", ProgressUrl("Fetching", urls[ui]))
       IN /\ manifests' = AppendManifest(manifests, manifest)
          /\ streams' = printTo(s1, "stdout", ProgressCount("Found app(s)", app_count))
    /\ ui' = ui + 1
    /\ UNCHANGED <<pc, output_name, merged, exc, responses, exit_status, output_file, mergeLocals>>

\* loop body, fetch_manifest raises: except Exception ... continue
FetchFailed ==
    /\ pc = "fetch"
    /\ ui <= Len(urls)
    /\ ~ responses[ui].ok
    /\ LET e == responses[ui].err
           s1 == printTo(streams, "stdout", ProgressUrl("Fetching", urls[ui]))
           s2 == ReportFetchError(s1, urls[ui], e)
       IN streams' = ReportFailed(s2, urls[ui], e)
    /\ ui' = ui + 1
    /\ UNCHANGED <<pc, manifests, output_name, merged, exc, responses, exit_status, output_file, mergeLocals>>

\* if not manifests: print(error, file=sys.stderr); sys.exit(1)
ExitNoManifests ==
    /\ pc = "fetch"
    /\ ui > Len(urls)
    /\ NoManifests(manifests)
    /\ streams' = printTo(streams, "stderr", ErrorLine("Error: No manifests could be fetched"))
    /\ exit_status' = 1
    /\ pc' = "exit"
    /\ UNCHANGED <<manifests, output_name, merged, exc, responses, ui, output_file, mergeLocals>>

\* print("Merging manifests..."); merged = merge_manifests(manifests, name)
\* An exception of the call is not caught: traceback on stderr, status 1.
MainMerge ==
    /\ pc = "fetch"
    /\ ui > Len(urls)
    /\ ~ NoManifests(manifests)
    /\ output_name' = MainOutputName
    /\ LET s1 == printTo(streams, "stdout", Progress("Merging manifests..."))
       IN IF EmptyInput(manifests)
          THEN /\ exc' = "ValueError"
               /\ streams' = printTo(s1, "stderr", ErrorLine("Traceback"))
               /\ exit_status' = 1
               /\ pc' = "exit"
               /\ UNCHANGED merged
          ELSE /\ merged' = merge_manifests(manifests, MainOutputName)
               /\ streams' = s1
               /\ pc' = "write"
               /\ UNCHANGED <<exc, exit_status>>
    /\ UNCHANGED <<manifests, responses, ui, output_file, mergeLocals>>

\* with open("merged_altstore.json", "w") as f: json.dump(merged, f, ...)
WriteOutput ==
    /\ pc = "write"
    /\ output_file' = [name |-> "merged_altstore.json", json |-> merged]
    /\ pc' = "print"
    /\ UNCHANGED <<manifests, output_name, merged, exc, responses, ui, streams, exit_status, mergeLocals>>

\* summary, banner and the merged document on stdout; main returns
PrintResult ==
    /\ pc = "print"
    /\ LET s1 == printTo(streams, "stdout", ProgressCount("Successfully merged manifest(s)", Len(manifests)))
           s2 == printTo(s1, "stdout", ProgressCount("Total apps in merged repository", Len(merged.apps)))
           s3 == printTo(s2, "stdout", Progress("Output saved to: merged_altstore.json"))
           s4 == printTo(s3, "stdout", Progress("===="))
           s5 == printTo(s4, "stdout", Progress("Merged Manifest:"))
           s6 == printTo(s5, "stdout", Progress("===="))
       IN streams' = printTo(s6, "stdout", JsonLine(merged))
    /\ pc' = "exit"
    /\ UNCHANGED <<manifests, output_name, merged, exc, responses, ui, exit_status, output_file, mergeLocals>>

Next ==
    MainStart \/ FetchOk \/ FetchFailed \/ ExitNoManifests \/ MainMerge
    \/ WriteOutput \/ PrintResult

Spec == Init /\ [][Next]_vars

(***************************************************************************)
(* Properties of merge_manifests (checked under SpecMerge)                 *)
(***************************************************************************)
\* All apps of the argument list in input order: manifest by manifest, and
\* within a manifest in list order; a manifest without "apps" adds nothing.
RECURSIVE AllApps(_)
AllApps(ms) ==
    IF ms = <<>> THEN <<>>
    ELSE (IF "apps" \in DOMAIN Head(ms) THEN Head(ms).apps ELSE <<>>)
         \o AllApps(Tail(ms))

RECURSIVE AllNews(_)
AllNews(ms) ==
    IF ms = <<>> THEN <<>>
    ELSE (IF "news" \in DOMAIN Head(ms) THEN Head(ms).news ELSE <<>>)
         \o AllNews(Tail(ms))

Identified(app) == bundle_id(app) # ""
Unidentified(app) == bundle_id(app) = ""

IdsOf(apps) == { bundle_id(apps[i]) : i \in 1..Len(apps) } \ { "" }

\* Position of the earliest entry of apps that carries identifier b.
FirstIndex(apps, b) ==
    CHOOSE k \in 1..Len(apps) :
        /\ bundle_id(apps[k]) = b
        /\ \A j \in 1..(k - 1) : bundle_id(apps[j]) # b

\* C1: for a non-empty argument list the returned apps hold at most one entry
\* per non-empty bundleIdentifier, that entry is the earliest occurrence of
\* the identifier in input order, whatever the content of later occurrences,
\* and the retained entries are in the order of their first occurrence.
C1_FirstSeenWins ==
    pc = "done" =>
        LET out == returned.apps
            inp == AllApps(manifests)
        IN /\ \A i, j \in 1..Len(out) :
                  (i # j /\ Identified(out[i])) => bundle_id(out[i]) # bundle_id(out[j])
           /\ \A i \in 1..Len(out) :
                  Identified(out[i]) =>
                      /\ bundle_id(out[i]) \in IdsOf(inp)
                      /\ out[i] = inp[FirstIndex(inp, bundle_id(out[i]))]
           /\ \A i, j \in 1..Len(out) :
                  (i < j /\ Identified(out[i]) /\ Identified(out[j])) =>
                      FirstIndex(inp, bundle_id(out[i])) < FirstIndex(inp, bundle_id(out[j]))

\* A call has returned whose input held two entries of one identifier with
\* different content, in different manifests.
C1_Witness ==
    /\ pc = "done"
    /\ Len(manifests) >= 2
    /\ "apps" \in DOMAIN manifests[1] /\ "apps" \in DOMAIN manifests[2]
    /\ \E i \in 1..Len(manifests[1].apps), j \in 1..Len(manifests[2].apps) :
           /\ Identified(manifests[1].apps[i])
           /\ bundle_id(manifests[1].apps[i]) = bundle_id(manifests[2].apps[j])
           /\ manifests[1].apps[i] # manifests[2].apps[j]
    /\ Len(returned.apps) > 0

\* C2: the distinct non-empty bundle identifiers of the returned apps are
\* exactly those of the apps of all input manifests, so their numbers agree:
\* no identifier is lost and none is invented.
C2_IdentifierCount ==
    pc = "done" =>
        /\ Cardinality(IdsOf(returned.apps)) = Cardinality(IdsOf(AllApps(manifests)))
        /\ IdsOf(returned.apps) = IdsOf(AllApps(manifests))

\* A call has returned whose input named two identifiers, one of them twice.
C2_Witness ==
    /\ pc = "done"
    /\ Cardinality(IdsOf(AllApps(manifests))) >= 2
    /\ \E i, j \in 1..Len(AllApps(manifests)) :
           /\ i # j
           /\ Identified(AllApps(manifests)[i])
           /\ bundle_id(AllApps(manifests)[i]) = bundle_id(AllApps(manifests)[j])

\* C3: an app whose bundleIdentifier is missing or empty is always appended:
\* the unidentified apps of the result are those of the input, all of them
\* and in input order, so their number is the total over the input manifests
\* even when copies are identical.
C3_UnidentifiedKept ==
    pc = "done" =>
        /\ SelectSeq(returned.apps, Unidentified) = SelectSeq(AllApps(manifests), Unidentified)
        /\ Len(SelectSeq(returned.apps, Unidentified))
               = Cardinality({ i \in 1..Len(AllApps(manifests)) :
                                   Unidentified(AllApps(manifests)[i]) })

\* A call has returned whose input held the same app without bundleIdentifier
\* twice, an app with an empty one, and an identified app.
C3_Witness ==
    /\ pc = "done"
    /\ \E i, j \in 1..Len(AllApps(manifests)) :
           /\ i # j
           /\ "bundleIdentifier" \notin DOMAIN AllApps(manifests)[i]
           /\ AllApps(manifests)[i] = AllApps(manifests)[j]
    /\ \E i \in 1..Len(AllApps(manifests)) :
           /\ "bundleIdentifier" \in DOMAIN AllApps(manifests)[i]
           /\ Unidentified(AllApps(manifests)[i])
    /\ IdsOf(AllApps(manifests)) # {}

\* C4: for a non-empty argument list the returned news holds no two
\* structurally equal items, holds every distinct news item of the input,
\* and lists them in first-seen order (so an item of two manifests is there
\* once).  Structural equality is equality of the JSON values.
C4_NewsDistinctComplete ==
    pc = "done" =>
        LET out == returned.news
            inp == AllNews(manifests)
            first(item) == CHOOSE k \in 1..Len(inp) :
                               inp[k] = item /\ \A j \in 1..(k - 1) : inp[j] # item
        IN /\ \A i, j \in 1..Len(out) : i # j => out[i] # out[j]
           /\ \A k \in 1..Len(inp) : \E i \in 1..Len(out) : out[i] = inp[k]
           /\ \A i \in 1..Len(out) : \E k \in 1..Len(inp) : out[i] = inp[k]
           /\ \A i, j \in 1..Len(out) : i < j => first(out[i]) < first(out[j])

\* C7: a call with an empty list raises ValueError and yields nothing: the
\* merged manifest is never constructed and nothing is returned.
C7_EmptyInputRaises ==
    manifests = <<>> =>
        /\ pc \in { "call", "raised" }
        /\ pc = "raised" => exc = "ValueError"
        /\ merged = Unbound
        /\ returned = Unbound

\* The call on the empty list has raised.
C7_Witness ==
    /\ pc = "raised"
    /\ manifests = <<>>
    /\ exc = "ValueError"

\* C8: every returned manifest has identifier com.octonezd.merged-repo and
\* the given output name as name, and the metadata-copy step leaves name,
\* identifier, apps and news as they were.
C8_IdentityFixed ==
    /\ [](pc = "done" =>
            /\ returned.identifier = "com.octonezd.merged-repo"
            /\ returned.name = output_name)
    /\ [][(pc = "loop" /\ pc' = "return") =>
            /\ merged'.name = merged.name
            /\ merged'.identifier = merged.identifier
            /\ merged'.apps = merged.apps
            /\ merged'.news = merged.news]_vars

\* A call has returned whose first manifest carries its own name and
\* identifier next to copied metadata.
C8_Witness ==
    /\ pc = "done"
    /\ "name" \in DOMAIN manifests[1]
    /\ "identifier" \in DOMAIN manifests[1]
    /\ "subtitle" \in DOMAIN manifests[1]
    /\ manifests[1].identifier # "com.octonezd.merged-repo"

CopiedKeys ==
    { "sourceURL", "subtitle", "description", "iconURL", "headerURL",
      "website", "tintColor" }

\* C9: for each of the seven metadata keys the result carries the first
\* manifest's value when the first manifest has the key; when it has not,
\* the key is absent from the result (iconURL keeps the built-in default),
\* whatever later manifests carry.
C9_MetadataFromFirst ==
    pc = "done" =>
        \A k \in CopiedKeys :
            IF k \in DOMAIN manifests[1]
            THEN k \in DOMAIN returned /\ returned[k] = manifests[1][k]
            ELSE IF k = "iconURL"
                 THEN returned.iconURL = "https://octonezd.me/octo-ios-repo/icon.jpg"
                 ELSE k \notin DOMAIN returned

\* A call has returned whose first manifest has some of the keys and whose
\* second manifest has a key the first lacks and another value for iconURL.
C9_Witness ==
    /\ pc = "done"
    /\ Len(manifests) >= 2
    /\ "iconURL" \in DOMAIN manifests[1] /\ "iconURL" \in DOMAIN manifests[2]
    /\ manifests[1].iconURL # manifests[2].iconURL
    /\ \E k \in CopiedKeys : k \notin DOMAIN manifests[1] /\ k \in DOMAIN manifests[2]

(***************************************************************************)
(* Properties of main (checked under Spec)                                 *)
(***************************************************************************)
AnyFetched == \E i \in 1..Len(urls) : responses[i].ok

\* The documents of the first k sources whose fetch succeeded, in source order.
RECURSIVE FetchedOf(_)
FetchedOf(k) ==
    IF k = 0 THEN <<>>
    ELSE IF responses[k].ok THEN Append(FetchedOf(k - 1), responses[k].doc)
         ELSE FetchedOf(k - 1)

\* C5: when no source could be fetched main ends with status 1 after the
\* error message on stderr, with no merge and no output file; when at least
\* one could, it merges, writes merged_altstore.json and ends with status 0,
\* also when other sources failed.
C5_ExitStatus ==
    /\ ~ AnyFetched => (merged = Unbound /\ output_file = Unbound /\ output_name = "")
    /\ pc = "exit" =>
           IF ~ AnyFetched
           THEN /\ exit_status = 1
                /\ Len(streams.stderr) > 0
                /\ streams.stderr[Len(streams.stderr)]
                       = [kind |-> "error", text |-> "Error: No manifests could be fetched"]
                /\ exc = ""
           ELSE /\ exit_status = 0
                /\ merged # Unbound
                /\ output_file = [name |-> "merged_altstore.json", json |-> merged]

\* A run in which every source failed has ended.
C5_Witness ==
    /\ pc = "exit"
    /\ ~ AnyFetched
    /\ exit_status = 1

\* C6: a failed fetch does not abort the run: the loop goes on to the next
\* source after every source, and the list main holds, and hands to
\* merge_manifests, is the documents of the sources fetched so far, in source
\* order, one per source.
C6_FetchLoop ==
    /\ [](pc # "main" =>
            manifests = FetchedOf(IF ui > Len(urls) THEN Len(urls) ELSE ui - 1))
    /\ [][(pc = "fetch" /\ ui <= Len(urls)) => (pc' = "fetch" /\ ui' = ui + 1)]_vars
    /\ [][(pc = "fetch" /\ pc' = "write") => manifests = FetchedOf(Len(urls))]_vars

\* The first source failed, the second was fetched, and the merge was called.
C6_Witness ==
    /\ pc = "write"
    /\ ~ responses[1].ok
    /\ responses[2].ok
    /\ manifests = << responses[2].doc >>

ErrorsOn(stream) == { i \in 1..Len(stream) : stream[i].kind = "error" }

ErrorsToStderr ==
    /\ ErrorsOn(streams.stdout) = {}
    /\ ErrorsOn(streams.stderr) = 1..Len(streams.stderr)
    /\ \A k \in 1..Len(urls) :
           (pc # "main" /\ k < ui /\ ~ responses[k].ok) =>
               \E i \in 1..Len(streams.stderr) :
                   streams.stderr[i] = [kind |-> "error", text |-> "Failed to fetch",
                                        url |-> urls[k], err |-> responses[k].err]
    /\ (pc = "exit" /\ exit_status = 1) => Len(streams.stderr) > 0

====
